---- MODULE Spec2Model ----
(***************************************************************************)
(* The content-to-presentation core of the blog: the MDX component         *)
(* registry (src/components/mdx-components.js), the presentational         *)
(* components (src/components/post-preview.js, src/components/intro.js)    *)
(* and the content files under src/posts.                                  *)
(*                                                                         *)
(* JavaScript values are tagged records, so that values of different       *)
(* JavaScript types are never confused: undefined, null, strings,          *)
(* booleans, numbers and objects (an object is a function from its own     *)
(* enumerable keys to values).                                             *)
(***************************************************************************)
EXTENDS Integers, Sequences, FiniteSets

VARIABLES classes, preset, components, last, tracked, nrenders, stage, posts,
          files, errors

vars == <<classes, preset, components, last, tracked, nrenders, stage, posts, files, errors>>

(* ---------------------------- bounds ----------------------------------- *)

\* how many renders one behaviour performs
MaxRenders == 3

(* ------------------------ JavaScript values ---------------------------- *)

Undefined == [t |-> "undefined"]
Null == [t |-> "null"]
Str(s) == [t |-> "string", v |-> s]
Bool(b) == [t |-> "boolean", b |-> b]
Num(n) == [t |-> "number", n |-> n]
Obj(f) == [t |-> "object", o |-> f]

\* the object literal {}
EmptyObject == [k \in {} |-> Undefined]

\* property read o.k / destructuring {k} = o: a missing key reads undefined
Get(o, k) == IF k \in DOMAIN o THEN o[k] ELSE Undefined

\* what an object spread ...v copies: the own enumerable keys of an object,
\* nothing for undefined, null, booleans and numbers
Spread(v) == IF v.t = "object" THEN v.o ELSE EmptyObject

\* the object literal {...a, ...b}: later keys win
Merge(a, b) ==
  [k \in (DOMAIN a) \cup (DOMAIN b) |-> IF k \in DOMAIN b THEN b[k] ELSE a[k]]

\* the rest of a destructuring pattern {k1, ..., ...rest} = o
Rest(o, ks) == [k \in (DOMAIN o) \ ks |-> o[k]]

\* string conversion inside a template literal `${v}`
ToString(v) ==
  CASE v.t = "string" -> v.v
    [] v.t = "undefined" -> "undefined"
    [] v.t = "null" -> "null"
    [] v.t = "boolean" -> (IF v.b THEN "true" ELSE "false")
    [] OTHER -> "[object Object]"

\* the text React writes for a child value: undefined, null and booleans
\* render nothing
ChildText(v) ==
  IF v.t \in {"undefined", "null", "boolean"} THEN "" ELSE ToString(v)

\* a React element: its type and its props
Element(type, props) == [type |-> type, props |-> props]

(* ---------------- src/components/mdx-components.js --------------------- *)

\* const classes = {...}
ClassesTable ==
  [k \in {"ch-hike-step-content-unfocused", "ch-hike-step-content",
          "ch-frame-button", "ch-frame-title-bar", "ch-editor-tab"} |->
     CASE k = "ch-hike-step-content-unfocused" -> Str("opacity-25 transition-opacity")
       [] k = "ch-hike-step-content" -> Str("border-none")
       [] k = "ch-frame-button" -> Str("bg-button-bg border-button-bg")
       [] k = "ch-frame-title-bar" -> Str("bg-editor-bg")
       [] k = "ch-editor-tab" -> Str("border-none bg-editor-bg")]

\* const preset = {...}
PresetValue ==
  [template |-> Str("react"),
   customSetup |->
     Obj([dependencies |-> Obj([k \in {"react-svg-curve"} |-> Str("0.2.0")])])]

\* the defaults of Hike's editorProps literal
EditorDefaults ==
  [codeProps |-> Obj([minColumns |-> Num(40)]),
   frameProps |-> Obj([button |-> Null])]

\* const defaultConfig = {...} (local to each call of Hike)
DefaultConfig ==
  [noPreview |-> Bool(FALSE), defaultFileName |-> Str("App.js")]

\* editorProps merged key by key inside codeProps and frameProps, so that a
\* caller's codeProps keeps the minColumns default
HikeStepsPropsDeepEditorMerge(p) ==
  LET config == Get(p, "config")
      props == Rest(p, {"config"})
      caller == Spread(Get(props, "editorProps"))
      editorProps ==
        Obj([k \in (DOMAIN EditorDefaults) \cup (DOMAIN caller) |->
               IF k \in DOMAIN EditorDefaults
                 THEN Obj(Merge(EditorDefaults[k].o, Spread(Get(caller, k))))
                 ELSE caller[k]])
      leading == [classes |-> Obj(classes),
                  config |-> Obj(Merge(DefaultConfig, Spread(config))),
                  preset |-> Obj(preset)]
  IN Merge(Merge(leading, props), [editorProps |-> editorProps])

\* the caller's props spread first, so that Hike's classes and preset win:
\* <HikeSteps {...props} classes={classes} config={...} preset={preset} .../>
HikeStepsPropsStaticsLast(p) ==
  LET config == Get(p, "config")
      props == Rest(p, {"config"})
      editorProps == Obj(Merge(EditorDefaults, Spread(Get(props, "editorProps"))))
      trailing == [classes |-> Obj(classes),
                   config |-> Obj(Merge(DefaultConfig, Spread(config))),
                   preset |-> Obj(preset),
                   editorProps |-> editorProps]
  IN Merge(props, trailing)

\* a slip in the merge order: config={{...config, ...defaultConfig}}
HikeStepsPropsDefaultsLast(p) ==
  LET config == Get(p, "config")
      props == Rest(p, {"config"})
      editorProps == Obj(Merge(EditorDefaults, Spread(Get(props, "editorProps"))))
      leading == [classes |-> Obj(classes),
                  config |-> Obj(Merge(Spread(config), DefaultConfig)),
                  preset |-> Obj(preset)]
  IN Merge(Merge(leading, props), [editorProps |-> editorProps])

\* function Hike({config, ...props}): the props HikeSteps is created with
HikeStepsProps(p) ==
  LET config == Get(p, "config")
      props == Rest(p, {"config"})
      editorProps == Obj(Merge(EditorDefaults, Spread(Get(props, "editorProps"))))
      leading == [classes |-> Obj(classes),
                  config |-> Obj(Merge(DefaultConfig, Spread(config))),
                  preset |-> Obj(preset)]
  IN Merge(Merge(leading, props), [editorProps |-> editorProps])

Hike(p) == Element("HikeSteps", HikeStepsProps(p))

\* HikeWithPreview setting the preview itself:
\* <Hike {...props} config={{noPreview: false}} />
HikeWithPreviewForcingConfig(p) ==
  Hike(Merge(p, [config |-> Obj([noPreview |-> Bool(FALSE)])]))

\* function HikeWithPreview(props): <Hike {...props} />
HikeWithPreview(p) == Hike(Merge(EmptyObject, p))

\* function HikeWithNoPreview(props): <Hike config={{noPreview: true}} {...props} />
HikeWithNoPreview(p) ==
  Hike(Merge([config |-> Obj([noPreview |-> Bool(TRUE)])], p))

(* ------------------ src/components/post-preview.js --------------------- *)

\* a slip in the path prefix: `/post/${slug}`
PostPathSingular(slug) == "/post/" \o ToString(slug)

\* the template literal `/posts/${slug}`
PostPath(slug) == "/posts/" \o ToString(slug)

\* PostPreview with its Avatar line not commented out:
\* <Avatar name={author.name} picture={author.picture} />, which throws a
\* TypeError when author is undefined
PostPreviewWithAvatar(p) ==
  LET title == Get(p, "title")
      date == Get(p, "date")
      excerpt == Get(p, "excerpt")
      author == Get(p, "author")
      slug == Get(p, "slug")
  IN IF author.t \in {"undefined", "null"}
       THEN Element("TypeError", EmptyObject)
       ELSE Element("div",
              [className |-> "my-40",
               children |-> <<
                 Element("h3",
                   [className |-> "mb-3 text-3xl font-bold leading-snug",
                    children |-> <<
                      Element("Link",
                        [as |-> PostPath(slug),
                         href |-> "/posts/[slug]",
                         className |-> "hover:underline",
                         children |-> <<title>>]) >>]),
                 Element("div",
                   [className |-> "mb-4 text-lg",
                    children |-> << Element("DateFormatter", [dateString |-> date]) >>]),
                 Element("p",
                   [className |-> "mb-4 text-lg leading-relaxed",
                    children |-> <<excerpt>>]),
                 Element("Avatar",
                   [name |-> Get(Spread(author), "name"),
                    picture |-> Get(Spread(author), "picture")]) >>])

\* PostPreview with the excerpt paragraph written above the date
PostPreviewExcerptFirst(p) ==
  LET title == Get(p, "title")
      date == Get(p, "date")
      excerpt == Get(p, "excerpt")
      slug == Get(p, "slug")
  IN Element("div",
       [className |-> "my-40",
        children |-> <<
          Element("h3",
            [className |-> "mb-3 text-3xl font-bold leading-snug",
             children |-> <<
               Element("Link",
                 [as |-> PostPath(slug),
                  href |-> "/posts/[slug]",
                  className |-> "hover:underline",
                  children |-> <<title>>]) >>]),
          Element("p",
            [className |-> "mb-4 text-lg leading-relaxed",
             children |-> <<excerpt>>]),
          Element("div",
            [className |-> "mb-4 text-lg",
             children |-> << Element("DateFormatter", [dateString |-> date]) >>]) >>])

\* export default function PostPreview({title, date, excerpt, author, slug})
PostPreview(p) ==
  LET title == Get(p, "title")
      date == Get(p, "date")
      excerpt == Get(p, "excerpt")
      slug == Get(p, "slug")
  IN Element("div",
       [className |-> "my-40",
        children |-> <<
          Element("h3",
            [className |-> "mb-3 text-3xl font-bold leading-snug",
             children |-> <<
               Element("Link",
                 [as |-> PostPath(slug),
                  href |-> "/posts/[slug]",
                  className |-> "hover:underline",
                  children |-> <<title>>]) >>]),
          Element("div",
            [className |-> "mb-4 text-lg",
             children |-> << Element("DateFormatter", [dateString |-> date]) >>]),
          Element("p",
            [className |-> "mb-4 text-lg leading-relaxed",
             children |-> <<excerpt>>]) >>])

(* ---------------------- src/components/intro.js ------------------------ *)

\* export default function Intro()
Intro ==
  Element("section",
    [className |-> "flex flex-col items-center mt-16 mb-16 md:flex-row md:justify-between md:mb-12",
     children |-> <<
       Element("h1",
         [className |-> "text-6xl font-bold leading-tight tracking-tighter md:text-8xl md:pr-8",
          children |-> <<Str("Blog.")>>]),
       Element("h4",
         [className |-> "mt-5 text-lg text-center md:text-left md:pl-8",
          children |-> <<
            Str("by"), Str(" "),
            Element("a",
              [href |-> "https://github.com/Neo42",
               className |-> "underline transition-colors duration-200 hover:text-success",
               children |-> <<Str("Johnny Jiang")>>]) >>]) >>])

\* the registry without its entry for code fences
ComponentsLiteralWithoutPre ==
  << [key |-> "a", value |-> "withFocusHandler(CustomLink)"],
     [key |-> "Hike", value |-> "Hike"],
     [key |-> "HikeWithPreview", value |-> "HikeWithPreview"],
     [key |-> "HikeWithNoPreview", value |-> "HikeWithNoPreview"],
     [key |-> "Focus", value |-> "Focus"],
     [key |-> "StepHead", value |-> "StepHead"],
     [key |-> "CodeSlot", value |-> "CodeSlot"],
     [key |-> "PreviewSlot", value |-> "PreviewSlot"] >>

\* the registry without its entry for step headings
ComponentsLiteralWithoutStepHead ==
  << [key |-> "pre", value |-> "CodeBlock"],
     [key |-> "a", value |-> "withFocusHandler(CustomLink)"],
     [key |-> "Hike", value |-> "Hike"],
     [key |-> "HikeWithPreview", value |-> "HikeWithPreview"],
     [key |-> "HikeWithNoPreview", value |-> "HikeWithNoPreview"],
     [key |-> "Focus", value |-> "Focus"],
     [key |-> "CodeSlot", value |-> "CodeSlot"],
     [key |-> "PreviewSlot", value |-> "PreviewSlot"] >>

\* the registry with the key Hike written twice
ComponentsLiteralHikeTwice ==
  << [key |-> "pre", value |-> "CodeBlock"],
     [key |-> "a", value |-> "withFocusHandler(CustomLink)"],
     [key |-> "Hike", value |-> "Hike"],
     [key |-> "Hike", value |-> "HikeWithPreview"],
     [key |-> "HikeWithNoPreview", value |-> "HikeWithNoPreview"],
     [key |-> "Focus", value |-> "Focus"],
     [key |-> "StepHead", value |-> "StepHead"],
     [key |-> "CodeSlot", value |-> "CodeSlot"],
     [key |-> "PreviewSlot", value |-> "PreviewSlot"] >>

\* export const components = {...}: the entries of the object literal, in
\* source order; a renderer is named by the expression bound to the key
ComponentsLiteral ==
  << [key |-> "pre", value |-> "CodeBlock"],
     [key |-> "a", value |-> "withFocusHandler(CustomLink)"],
     [key |-> "Hike", value |-> "Hike"],
     [key |-> "HikeWithPreview", value |-> "HikeWithPreview"],
     [key |-> "HikeWithNoPreview", value |-> "HikeWithNoPreview"],
     [key |-> "Focus", value |-> "Focus"],
     [key |-> "StepHead", value |-> "StepHead"],
     [key |-> "CodeSlot", value |-> "CodeSlot"],
     [key |-> "PreviewSlot", value |-> "PreviewSlot"] >>

\* evaluation of an object literal: one property per key, and when a key is
\* written twice the last entry wins
ObjectLiteral(entries) ==
  [k \in {entries[i].key : i \in DOMAIN entries} |->
     LET i == CHOOSE j \in DOMAIN entries :
                /\ entries[j].key = k
                /\ \A m \in DOMAIN entries : entries[m].key = k => m <= j
     IN entries[i].value]

\* the MDX runtime's choice of renderer for a tag: the registered renderer
\* when the tag is a key of the registry, the HTML element otherwise
ResolveTag(tag) ==
  IF tag \in DOMAIN components
    THEN [kind |-> "component", renderer |-> components[tag]]
    ELSE [kind |-> "html", element |-> tag]


(* ----------------------------- src/posts ------------------------------- *)

\* the author of every front matter block that names one
HaoJiang ==
  Obj([name |-> Str("Hao Jiang"), picture |-> Str("/assets/blog/authors/hao.png")])

\* The content files under src/posts: the file's name, character by
\* character, and its front matter blocks in file order, each block a map
\* from the keys it writes to their values.  Excerpts are cut to their
\* opening words and the emoji of one title is left out.
FpMd ==
  [name |-> <<"f", "p", ".", "m", "d">>,
   blocks |-> <<
     [title |-> Str("FP in Plain English: How Composition & Currying Work"),
      excerpt |-> Str("Functional programming is a cool programming style"),
      coverImage |-> Str("/assets/blog/fp/cover.jpg"),
      date |-> Str("2021-04-09")],
     [title |-> Str("How to Build a Mini Functor"),
      excerpt |-> Str("Functors and monads."),
      coverImage |-> Str("/assets/blog/hello-world/cover.jpg"),
      date |-> Str("2021-04-12"),
      author |-> HaoJiang,
      ogImage |-> Obj([url |-> Str("/assets/blog/hello-world/cover.jpg")])] >>]

\* monad.md with a tags line added to its front matter
MonadMdWithTags ==
  [name |-> <<"m", "o", "n", "a", "d", ".", "m", "d">>,
   blocks |-> <<
     [title |-> Str("How to Build a Mini IO Monad"),
      excerpt |-> Str("Instinctively, when we look at a difficult concept"),
      coverImage |-> Str("/assets/blog/monad/cover.jpg"),
      date |-> Str("2021-04-25"),
      tags |-> Str("fp")],
     [title |-> Str("React Performance Recipes"),
      excerpt |-> Str("Performance optimization can be daunting"),
      coverImage |-> Str("/assets/blog/react-po/cover.jpg"),
      date |-> Str("2022-01-05")] >>]

MonadMd ==
  [name |-> <<"m", "o", "n", "a", "d", ".", "m", "d">>,
   blocks |-> <<
     [title |-> Str("How to Build a Mini IO Monad"),
      excerpt |-> Str("Instinctively, when we look at a difficult concept"),
      coverImage |-> Str("/assets/blog/monad/cover.jpg"),
      date |-> Str("2021-04-25")],
     [title |-> Str("React Performance Recipes"),
      excerpt |-> Str("Performance optimization can be daunting"),
      coverImage |-> Str("/assets/blog/react-po/cover.jpg"),
      date |-> Str("2022-01-05")] >>]

ReactPerformanceRecipesMd ==
  [name |-> <<"r", "e", "a", "c", "t", "-", "p", "e", "r", "f", "o", "r", "m", "a", "n", "c", "e", "-", "r", "e", "c", "i", "p", "e", "s", ".", "m", "d">>,
   blocks |-> <<
     [title |-> Str("React Performance Recipes"),
      excerpt |-> Str("Performance optimization can be daunting"),
      coverImage |-> Str("/assets/blog/react-po/cover.jpg"),
      date |-> Str("2022-01-05"),
      author |-> HaoJiang,
      ogImage |-> Obj([url |-> Str("/assets/blog/react-po/cover.jpg")])],
     [title |-> Str("How to Build a Mini React (wip)"),
      excerpt |-> Str("Create your own version of a thing is THE way to understand it."),
      coverImage |-> Str("/assets/blog/react/cover.jpg"),
      date |-> Str("2021-06-30"),
      author |-> HaoJiang,
      ogImage |-> Obj([url |-> Str("/assets/blog/react/cover.jpg")])] >>]

\* react.md with its coverImage line left out
ReactMdWithoutCover ==
  [name |-> <<"r", "e", "a", "c", "t", ".", "m", "d">>,
   blocks |-> <<
     [title |-> Str("How to Build a Mini React: From JSX Element to useState"),
      excerpt |-> Str("What I cannot create, I do not understand. - Richard Feynman"),
      date |-> Str("2022-03-27")] >>]

\* react.md under a name with a space in it
ReactMdSpacedName ==
  [name |-> <<"m", "i", "n", "i", " ", "r", "e", "a", "c", "t", ".", "m", "d">>,
   blocks |-> <<
     [title |-> Str("How to Build a Mini React: From JSX Element to useState"),
      excerpt |-> Str("What I cannot create, I do not understand. - Richard Feynman"),
      coverImage |-> Str("/assets/blog/react/cover.jpg"),
      date |-> Str("2022-03-27")] >>]

ReactMd ==
  [name |-> <<"r", "e", "a", "c", "t", ".", "m", "d">>,
   blocks |-> <<
     [title |-> Str("How to Build a Mini React: From JSX Element to useState"),
      excerpt |-> Str("What I cannot create, I do not understand. - Richard Feynman"),
      coverImage |-> Str("/assets/blog/react/cover.jpg"),
      date |-> Str("2022-03-27")] >>]

\* service-worker.md with its date line left out
ServiceWorkerMdWithoutDate ==
  [name |-> <<"s", "e", "r", "v", "i", "c", "e", "-", "w", "o", "r", "k", "e", "r", ".", "m", "d">>,
   blocks |-> <<
     [title |-> Str("Service Worker Explained"),
      excerpt |-> Str("Websites are by default fragile and brittle")] >>]

ServiceWorkerMd ==
  [name |-> <<"s", "e", "r", "v", "i", "c", "e", "-", "w", "o", "r", "k", "e", "r", ".", "m", "d">>,
   blocks |-> <<
     [title |-> Str("Service Worker Explained"),
      excerpt |-> Str("Websites are by default fragile and brittle"),
      date |-> Str("2022-03-23")] >>]

\* the lines of the --- delimiters of each file's front matter blocks, as
\* <<opening line, closing line>> in file order
Delimiters ==
  { [name |-> FpMd.name, lines |-> << <<1, 6>>, <<252, 262>> >>],
    [name |-> MonadMd.name, lines |-> << <<1, 6>>, <<186, 191>> >>],
    [name |-> ReactPerformanceRecipesMd.name, lines |-> << <<1, 11>>, <<650, 660>> >>],
    [name |-> ReactMd.name, lines |-> << <<1, 6>> >>],
    [name |-> ServiceWorkerMd.name, lines |-> << <<1, 5>> >>] }

\* the dates the front matter blocks are written with, character by
\* character
DateSpellings ==
  { <<"2", "0", "2", "1", "-", "0", "4", "-", "0", "9">>,
    <<"2", "0", "2", "1", "-", "0", "4", "-", "1", "2">>,
    <<"2", "0", "2", "1", "-", "0", "4", "-", "2", "5">>,
    <<"2", "0", "2", "2", "-", "0", "1", "-", "0", "5">>,
    <<"2", "0", "2", "1", "-", "0", "6", "-", "3", "0">>,
    <<"2", "0", "2", "2", "-", "0", "3", "-", "2", "7">>,
    <<"2", "0", "2", "2", "-", "0", "3", "-", "2", "3">> }

\* the content set
ContentFiles ==
  {FpMd, MonadMd, ReactPerformanceRecipesMd, ReactMd, ServiceWorkerMd}

FileNames == {f.name : f \in ContentFiles}

\* the content files of a name (one, as a directory holds a name once) in
\* the content set the build was given
FilesNamed(n) == {f \in files : f.name = n}

\* the capitalised MDX tags a content file uses outside its code fences and
\* inline code: the walkthrough in monad.md is written with three of them,
\* and no other file uses any
CustomTags(f) ==
  IF f.name = MonadMd.name
    THEN {"HikeWithNoPreview", "StepHead", "CodeSlot"}
    ELSE {}

(* ------------------------- loading a content file ---------------------- *)

\* the slug of a content file: its name without the .md extension
SlugOf(name) ==
  IF Len(name) >= 3 /\ SubSeq(name, Len(name) - 2, Len(name)) = <<".", "m", "d">>
    THEN SubSeq(name, 1, Len(name) - 3)
    ELSE name

\* characters that stand for themselves in a URL path segment
UrlSafeChars ==
  {"a", "b", "c", "d", "e", "f", "g", "h", "i", "j", "k", "l", "m", "n", "o",
   "p", "q", "r", "s", "t", "u", "v", "w", "x", "y", "z",
   "A", "B", "C", "D", "E", "F", "G", "H", "I", "J", "K", "L", "M", "N", "O",
   "P", "Q", "R", "S", "T", "U", "V", "W", "X", "Y", "Z",
   "0", "1", "2", "3", "4", "5", "6", "7", "8", "9", "-", "_", ".", "~"}

IsUrlSafe(slug) == Len(slug) > 0 /\ \A i \in DOMAIN slug : slug[i] \in UrlSafeChars

\* the fields every Post must have
RequiredFields == {"title", "excerpt", "date"}

\* the front matter of a file is its leading block
FrontMatter(f) == f.blocks[1]

\* a validation that looks at the title only
IsValidTitleOnly(data) ==
  /\ "title" \in DOMAIN data
  /\ data["title"] # Str("")

\* a front matter is valid when it has the required fields and its title is
\* not empty
IsValid(data) ==
  /\ RequiredFields \subseteq DOMAIN data
  /\ data["title"] # Str("")

\* the Post of a content file
PostOf(f) == [slug |-> SlugOf(f.name), data |-> FrontMatter(f)]

(* ------------------------- the theme stylesheet ------------------------ *)

\* the code-block rule without its last variable, --falsy
ThemeVariablesWithoutFalsy ==
  [k \in {"comment", "punctuation", "property", "boolean", "string",
          "operator", "function", "keyword", "literal"} |->
     CASE k = "comment" -> "#a6accd"
       [] k = "punctuation" -> "#e4f0fb"
       [] k = "property" -> "#e4f0fb"
       [] k = "boolean" -> "#5de4c7"
       [] k = "string" -> "#5de4c7"
       [] k = "operator" -> "#add7ff"
       [] k = "function" -> "#5de4c7"
       [] k = "keyword" -> "#add7ff"
       [] k = "literal" -> "#fffac2"]

\* the color variables of the code-block rule
ThemeVariables ==
  [k \in {"comment", "punctuation", "property", "boolean", "string",
          "operator", "function", "keyword", "literal", "falsy"} |->
     CASE k = "comment" -> "#a6accd"
       [] k = "punctuation" -> "#e4f0fb"
       [] k = "property" -> "#e4f0fb"
       [] k = "boolean" -> "#5de4c7"
       [] k = "string" -> "#5de4c7"
       [] k = "operator" -> "#add7ff"
       [] k = "function" -> "#5de4c7"
       [] k = "keyword" -> "#add7ff"
       [] k = "literal" -> "#fffac2"
       [] k = "falsy" -> "#f087bd"]

\* a selector .token.<class>, alone or inside an ancestor class
Token(c) == [ancestor |-> "", token |-> c]
TokenIn(a, c) == [ancestor |-> a, token |-> c]

\* the .token rules in stylesheet order: the selectors of each rule and the
\* property it declares; a color is declared as the variable it reads
ThemeRules ==
  << [selectors |-> {Token("namespace")}, property |-> "opacity", value |-> "0.7"],
     [selectors |-> {Token("comment"), Token("prolog"), Token("doctype"), Token("cdata")},
      property |-> "color", value |-> "comment"],
     [selectors |-> {Token("punctuation")}, property |-> "color", value |-> "punctuation"],
     [selectors |-> {Token("property"), Token("tag"), Token("constant"),
                     Token("symbol"), Token("deleted")},
      property |-> "color", value |-> "property"],
     [selectors |-> {Token("boolean"), Token("number")},
      property |-> "color", value |-> "boolean"],
     [selectors |-> {Token("selector"), Token("attr-value"), Token("string"),
                     Token("char"), Token("builtin"), Token("inserted")},
      property |-> "color", value |-> "string"],
     [selectors |-> {Token("attr-name"), Token("operator"), Token("entity"),
                     Token("url"), TokenIn("language-css", "string"),
                     TokenIn("style", "string"), Token("variable")},
      property |-> "color", value |-> "operator"],
     [selectors |-> {Token("atrule"), Token("function"), Token("class-name")},
      property |-> "color", value |-> "function"],
     [selectors |-> {Token("keyword")}, property |-> "color", value |-> "keyword"],
     [selectors |-> {Token("regex"), Token("important")},
      property |-> "color", value |-> "literal"],
     [selectors |-> {Token("deleted")}, property |-> "color", value |-> "falsy"],
     [selectors |-> {Token("important"), Token("bold")},
      property |-> "font-weight", value |-> "bold"],
     [selectors |-> {Token("italic")}, property |-> "font-style", value |-> "italic"],
     [selectors |-> {Token("entity")}, property |-> "cursor", value |-> "help"] >>

\* the token classes the stylesheet has a rule for
TokenClasses(rules) ==
  UNION {{sel.token : sel \in rules[i].selectors} : i \in DOMAIN rules}

\* the rules that give a token class a color
ColorRules(rules, c) ==
  {i \in DOMAIN rules :
     /\ rules[i].property = "color"
     /\ \E sel \in rules[i].selectors : sel.token = c}

\* the cascade for a token outside any ancestor class: among the rules that
\* select .token.<class> alone, all of one specificity, the last one wins
CascadeColor(rules, c) ==
  LET plain == {i \in DOMAIN rules :
                  /\ rules[i].property = "color"
                  /\ Token(c) \in rules[i].selectors}
  IN IF plain = {} THEN "inherit"
     ELSE ThemeVariables[rules[CHOOSE i \in plain : \A j \in plain : j <= i].value]

\* the stylesheet with its rules in the opposite order
ReverseRules(rules) == [i \in DOMAIN rules |-> rules[Len(rules) + 1 - i]]

(* ------------------------------ inputs --------------------------------- *)

\* caller configs of the Hike family, as the part of the props that holds
\* them: none, undefined, null, and objects that set none, one or both of
\* the default keys or a key of their own
ConfigParts ==
  { EmptyObject,
    [config |-> Undefined],
    [config |-> Null],
    [config |-> Obj(EmptyObject)],
    [config |-> Obj([noPreview |-> Bool(TRUE)])],
    [config |-> Obj([defaultFileName |-> Str("index.js")])],
    [config |-> Obj([defaultFileName |-> Undefined])],
    [config |-> Obj([noPreview |-> Bool(TRUE), theme |-> Str("dark")])] }

\* caller editorProps: none, a codeProps without minColumns, a frameProps
\* together with a key of the caller's own
EditorParts ==
  { EmptyObject,
    [editorProps |-> Obj([codeProps |-> Obj(EmptyObject)])],
    [editorProps |-> Obj([frameProps |-> Obj([button |-> Str("run")]),
                          lineNumbers |-> Bool(TRUE)])] }

\* other props a caller passes: its own classes, its own preset, children
OtherParts ==
  { [classes |-> Obj([k \in {"ch-editor-tab"} |-> Str("border-2")])],
    [preset |-> Obj([template |-> Str("vanilla")])],
    [children |-> Str("steps")] }

HikeProps ==
  {Merge(c, e) : c \in ConfigParts, e \in EditorParts}
    \cup {Merge(c, o) : c \in {EmptyObject, [config |-> Obj([noPreview |-> Bool(TRUE)])]},
                        o \in OtherParts}

\* the four fields PostPreview shows, each present or left out
PreviewFields ==
  [title |-> Str("Sample"), date |-> Str("2020-03-16"),
   excerpt |-> Str("Lorem ipsum"), slug |-> Str("sample")]

PostPreviewProps ==
  {[k \in ks |-> PreviewFields[k]] : ks \in SUBSET (DOMAIN PreviewFields)}
    \cup {Merge(PreviewFields, x) :
            x \in { [slug |-> Str("hello-world")],
                    [title |-> Str("")],
                    [author |-> Obj([name |-> Str("Hao Jiang"),
                                     picture |-> Str("/assets/blog/authors/hao.png")])],
                    [author |-> Obj([name |-> Str("JJ")])] }}

\* front matters a content file may be written with: any of these fields
\* present or left out, or all of them with an empty title
DraftFields ==
  [title |-> Str("Draft"), excerpt |-> Str("Work in progress"),
   date |-> Str("2022-04-01"), coverImage |-> Str("/assets/blog/draft/cover.jpg")]

DraftFrontMatters ==
  {[k \in ks |-> DraftFields[k]] : ks \in SUBSET (DOMAIN DraftFields)}
    \cup {Merge(DraftFields, [title |-> Str("")])}

\* content sets of two files, draft.md and note.md
DraftSets ==
  {{[name |-> <<"d", "r", "a", "f", "t", ".", "m", "d">>, blocks |-> <<a>>],
    [name |-> <<"n", "o", "t", "e", ".", "m", "d">>, blocks |-> <<b>>]} :
     a \in DraftFrontMatters, b \in DraftFrontMatters}

\* tags an MDX document uses: the registered ones, HTML elements, and a
\* capitalised tag nobody registered
MdxTags ==
  {"pre", "a", "Hike", "HikeWithPreview", "HikeWithNoPreview", "Focus",
   "StepHead", "CodeSlot", "PreviewSlot", "p", "h2", "code", "ListItem"}

(* --------------------------- state machine ----------------------------- *)

\* no render yet
None == [component |-> "none"]

Init ==
  /\ classes = ClassesTable
  /\ preset = PresetValue
  /\ components = ObjectLiteral(ComponentsLiteral)
  /\ last = None
  /\ tracked = None
  /\ nrenders = 0
  /\ files = ContentFiles
  /\ errors = {}
  /\ stage = [n \in FileNames |-> "unread"]
  /\ posts = {}

\* bookkeeping of one render: `last` is the render just made (what was
\* passed in, what came out, and the caller's props object as the call left
\* it); `tracked` remembers one earlier render, chosen freely, so that any
\* two renders of a behaviour can be compared
Record(c, p, out, after) ==
  /\ nrenders < MaxRenders
  /\ nrenders' = nrenders + 1
  /\ last' = [component |-> c, props |-> p, output |-> out, propsAfter |-> after]
  /\ \/ tracked' = tracked
     \/ tracked = None /\ tracked' = last'

\* Hike merging the caller's classes into the module's table in place:
\* Object.assign(classes, props.classes)
RenderHikeAssigningClasses(p) ==
  /\ Record("Hike", p, Hike(p), p)
  /\ classes' = Merge(classes, Spread(Get(p, "classes")))
  /\ UNCHANGED <<preset, components, stage, posts, files, errors>>

\* Hike only reads its argument and the module's classes and preset
RenderHike(p) ==
  /\ Record("Hike", p, Hike(p), p)
  /\ UNCHANGED <<classes, preset, components, stage, posts, files, errors>>

\* HikeWithPreview writing the defaults into the caller's props:
\* props.config = {...defaultConfig, ...props.config}
RenderHikeWithPreviewWritingProps(p) ==
  /\ Record("HikeWithPreview", p, HikeWithPreview(p),
            Merge(p, [config |-> Obj(Merge(DefaultConfig, Spread(Get(p, "config"))))]))
  /\ UNCHANGED <<classes, preset, components, stage, posts, files, errors>>

RenderHikeWithPreview(p) ==
  /\ Record("HikeWithPreview", p, HikeWithPreview(p), p)
  /\ UNCHANGED <<classes, preset, components, stage, posts, files, errors>>

\* HikeWithNoPreview merging the caller's preset into the module's preset in
\* place: Object.assign(preset, props.preset)
RenderHikeWithNoPreviewAssigningPreset(p) ==
  /\ Record("HikeWithNoPreview", p, HikeWithNoPreview(p), p)
  /\ preset' = Merge(preset, Spread(Get(p, "preset")))
  /\ UNCHANGED <<classes, components, stage, posts, files, errors>>

RenderHikeWithNoPreview(p) ==
  /\ Record("HikeWithNoPreview", p, HikeWithNoPreview(p), p)
  /\ UNCHANGED <<classes, preset, components, stage, posts, files, errors>>

RenderPostPreview(p) ==
  /\ Record("PostPreview", p, PostPreview(p), p)
  /\ UNCHANGED <<classes, preset, components, stage, posts, files, errors>>

RenderIntro ==
  /\ Record("Intro", EmptyObject, Intro, EmptyObject)
  /\ UNCHANGED <<classes, preset, components, stage, posts, files, errors>>

RenderMdxTag(tag) ==
  /\ Record("mdx", [tag |-> tag], ResolveTag(tag), [tag |-> tag])
  /\ UNCHANGED <<classes, preset, components, stage, posts, files, errors>>

Next ==
  \/ \E p \in HikeProps : RenderHike(p)
  \/ \E p \in HikeProps : RenderHikeWithPreview(p)
  \/ \E p \in HikeProps : RenderHikeWithNoPreview(p)
  \/ \E p \in PostPreviewProps : RenderPostPreview(p)
  \/ RenderIntro
  \/ \E tag \in MdxTags : RenderMdxTag(tag)

Spec == Init /\ [][Next]_vars

\* the build reads a content file
ReadFile(n) ==
  /\ stage[n] = "unread"
  /\ stage' = [stage EXCEPT ![n] = "read"]
  /\ UNCHANGED <<classes, preset, components, last, tracked, nrenders, posts,
                 files, errors>>

\* the build parses the front matter of a file it has read: a valid front
\* matter gives the file's Post, an invalid one a build error that names the
\* file, and no Post
ParseFile(n) ==
  /\ stage[n] = "read"
  /\ \E f \in FilesNamed(n) :
       IF IsValid(FrontMatter(f))
         THEN /\ posts' = posts \cup {PostOf(f)}
              /\ errors' = errors
              /\ stage' = [stage EXCEPT ![n] = "parsed"]
         ELSE /\ posts' = posts
              /\ errors' = errors \cup {n}
              /\ stage' = [stage EXCEPT ![n] = "error"]
  /\ UNCHANGED <<classes, preset, components, last, tracked, nrenders, files>>

\* the body of a parsed file is transformed into a tree of elements through
\* the component registry
TransformBody(n) ==
  /\ stage[n] = "parsed"
  /\ stage' = [stage EXCEPT ![n] = "transformed"]
  /\ UNCHANGED <<classes, preset, components, last, tracked, nrenders, posts,
                 files, errors>>

\* the tree is rendered by the presentational components
RenderPage(n) ==
  /\ stage[n] = "transformed"
  /\ stage' = [stage EXCEPT ![n] = "rendered"]
  /\ UNCHANGED <<classes, preset, components, last, tracked, nrenders, posts,
                 files, errors>>

\* styling that does not wait for the render
StylePageBeforeRender(n) ==
  /\ stage[n] \in {"transformed", "rendered"}
  /\ stage' = [stage EXCEPT ![n] = "styled"]
  /\ UNCHANGED <<classes, preset, components, last, tracked, nrenders, posts,
                 files, errors>>

\* the rendered page is styled with the theme stylesheet
StylePage(n) ==
  /\ stage[n] = "rendered"
  /\ stage' = [stage EXCEPT ![n] = "styled"]
  /\ UNCHANGED <<classes, preset, components, last, tracked, nrenders, posts,
                 files, errors>>

NextContent ==
  \/ \E n \in DOMAIN stage : ReadFile(n)
  \/ \E n \in DOMAIN stage : ParseFile(n)
  \/ \E n \in DOMAIN stage : TransformBody(n)
  \/ \E n \in DOMAIN stage : RenderPage(n)
  \/ \E n \in DOMAIN stage : StylePage(n)

SpecContent == Init /\ [][NextContent]_vars

\* a build over any content set: the content set of src/posts, or two files
\* written with any front matter
InitBuild ==
  /\ classes = ClassesTable
  /\ preset = PresetValue
  /\ components = ObjectLiteral(ComponentsLiteral)
  /\ last = None
  /\ tracked = None
  /\ nrenders = 0
  /\ files \in DraftSets \cup {ContentFiles}
  /\ errors = {}
  /\ stage = [n \in {f.name : f \in files} |-> "unread"]
  /\ posts = {}

\* the build is one synchronous run over the content set: it goes on while
\* a file has a stage left
SpecBuild == InitBuild /\ [][NextContent]_vars /\ WF_vars(NextContent)

TypeOK == nrenders \in 0..MaxRenders

(* ------------------------------ claims --------------------------------- *)

\* the parts of a PostPreview
LinkOf(out) == out.props.children[1].props.children[1]
DateOf(out) == out.props.children[2].props.children[1]
ExcerptOf(out) == out.props.children[3]

\* C1: for every slug, PostPreview renders a link whose target path is
\* "/posts/" followed by the slug, with route pattern "/posts/[slug]", and
\* whose text is the given title; slug "sample" gives /posts/sample.
C1_PreviewLinksToPost ==
  (last.component = "PostPreview" /\ Get(last.props, "slug").t = "string") =>
    LET link == LinkOf(last.output)
    IN /\ link.type = "Link"
       /\ link.props.as = "/posts/" \o last.props["slug"].v
       /\ link.props.href = "/posts/[slug]"
       /\ link.props.children = <<Get(last.props, "title")>>
       /\ (last.props["slug"] = Str("sample") => link.props.as = "/posts/sample")

C1_Witness ==
  /\ last.component = "PostPreview"
  /\ Get(last.props, "title") = Str("Sample")
  /\ Get(last.props, "slug") = Str("sample")
  /\ LinkOf(last.output).props.as = "/posts/sample"

\* C2: rendering is deterministic: two renders of the same component with
\* equal props give the same output, whatever was rendered in between.
C2_RenderDeterministic ==
  (tracked # None /\ tracked.component = last.component
     /\ tracked.props = last.props) =>
    tracked.output = last.output

C2_Witness ==
  /\ nrenders >= 3
  /\ tracked # None
  /\ tracked.component = "Hike"
  /\ last.component = "Hike"
  /\ tracked.props = last.props
  /\ tracked.output = last.output

\* C3: Hike hands the renderer the caller's config over the defaults: every
\* key the caller sets keeps the caller's value, every default key the
\* caller omits keeps its default, both default keys are always there, and
\* with no config (or an undefined one) the config is the defaults.
C3_HikeAppliesDefaultConfig ==
  last.component = "Hike" =>
    LET caller == Spread(Get(last.props, "config"))
        given == last.output.props["config"]
    IN /\ last.output.type = "HikeSteps"
       /\ given.t = "object"
       /\ DOMAIN given.o = {"noPreview", "defaultFileName"} \cup DOMAIN caller
       /\ \A k \in DOMAIN caller : given.o[k] = caller[k]
       /\ "noPreview" \notin DOMAIN caller => given.o["noPreview"] = Bool(FALSE)
       /\ "defaultFileName" \notin DOMAIN caller =>
            given.o["defaultFileName"] = Str("App.js")
       /\ Get(last.props, "config") = Undefined =>
            given = Obj([noPreview |-> Bool(FALSE), defaultFileName |-> Str("App.js")])

C3_Witness ==
  /\ last.component = "Hike"
  /\ Get(last.props, "config") = Obj([noPreview |-> Bool(TRUE), theme |-> Str("dark")])
  /\ last.output.props["config"] =
       Obj([noPreview |-> Bool(TRUE), theme |-> Str("dark"),
            defaultFileName |-> Str("App.js")])

\* the keys the registry is written with
RegistryKeys ==
  {"pre", "a", "Hike", "HikeWithPreview", "HikeWithNoPreview", "Focus",
   "StepHead", "CodeSlot", "PreviewSlot"}

\* C4: looking up a tag that is not a key of the registry never fails and
\* gives the HTML element of that name; a tag that is a key gives its
\* registered renderer.
C4_UnmappedTagFallsBack ==
  last.component = "mdx" =>
    LET tag == last.props["tag"]
    IN IF tag \in RegistryKeys
         THEN /\ last.output.kind = "component"
              /\ last.output.renderer = components[tag]
              /\ (tag = "pre" => last.output.renderer = "CodeBlock")
         ELSE last.output = [kind |-> "html", element |-> tag]

C4_Witness ==
  /\ last.component = "mdx"
  /\ last.props["tag"] = "ListItem"
  /\ last.output = [kind |-> "html", element |-> "ListItem"]

\* C5: every field of {title, date, excerpt, slug} that is left out renders
\* as blank: no text for a missing title or excerpt, no date string for a
\* missing date, and nothing after "/posts/" for a missing slug.
C5_MissingFieldsRenderBlank ==
  last.component = "PostPreview" =>
    /\ "title" \notin DOMAIN last.props =>
         ChildText(LinkOf(last.output).props.children[1]) = ""
    /\ "excerpt" \notin DOMAIN last.props =>
         ChildText(ExcerptOf(last.output).props.children[1]) = ""
    /\ "date" \notin DOMAIN last.props =>
         DateOf(last.output).props.dateString = Undefined
    /\ "slug" \notin DOMAIN last.props =>
         LinkOf(last.output).props.as = "/posts/"

\* C6: the static configuration is read-only: after any renders the
\* registry, the classes table and the preset hold the values they were
\* initialised with.
C6_StaticConfigReadOnly ==
  /\ classes = ClassesTable
  /\ preset = PresetValue
  /\ components = ObjectLiteral(ComponentsLiteral)

C6_Witness ==
  /\ nrenders >= 2
  /\ tracked # None
  /\ tracked.component \in {"Hike", "HikeWithPreview", "HikeWithNoPreview"}
  /\ "classes" \in DOMAIN tracked.props
  /\ last.component = "HikeWithNoPreview"
  /\ "preset" \in DOMAIN last.props

\* C7: a render leaves the props object it was passed unchanged, the
\* caller's config and editorProps included.
C7_PropsNotMutated ==
  last # None => last.propsAfter = last.props

C7_Witness ==
  /\ last.component = "HikeWithPreview"
  /\ "config" \in DOMAIN last.props
  /\ "editorProps" \in DOMAIN last.props
  /\ last.propsAfter = last.props
  /\ last.output.props["config"] # last.props["config"]

\* C8: the registry is written with nine distinct keys, pre, a, Hike,
\* HikeWithPreview, HikeWithNoPreview, Focus, StepHead, CodeSlot and
\* PreviewSlot, each bound to one renderer: pre to CodeBlock and a to the
\* focus-handler-wrapped CustomLink.
C8_RegistryKeysUnique ==
  /\ DOMAIN components = RegistryKeys
  /\ Len(ComponentsLiteral) = Cardinality(RegistryKeys)
  /\ \A i, j \in DOMAIN ComponentsLiteral :
       ComponentsLiteral[i].key = ComponentsLiteral[j].key => i = j
  /\ \A i \in DOMAIN ComponentsLiteral :
       components[ComponentsLiteral[i].key] = ComponentsLiteral[i].value
  /\ components["pre"] = "CodeBlock"
  /\ components["a"] = "withFocusHandler(CustomLink)"

C8_Witness ==
  /\ last.component = "mdx"
  /\ last.props["tag"] = "a"
  /\ last.output = [kind |-> "component", renderer |-> "withFocusHandler(CustomLink)"]

\* C9: every front matter block of every content file under src/posts has
\* a title, an excerpt and a date, no title is empty, and so has every Post
\* loaded from them.
C9_RequiredFieldsPresent ==
  /\ \A f \in ContentFiles : \A i \in DOMAIN f.blocks :
       /\ {"title", "excerpt", "date"} \subseteq DOMAIN f.blocks[i]
       /\ f.blocks[i]["title"].t = "string"
       /\ f.blocks[i]["title"] # Str("")
  /\ \A post \in posts :
       /\ {"title", "excerpt", "date"} \subseteq DOMAIN post.data
       /\ post.data["title"] # Str("")
  /\ \A n \in FileNames : stage[n] # "error"

C9_Witness ==
  /\ \A n \in FileNames : stage[n] = "parsed"
  /\ Cardinality(posts) = 5
  /\ \E post \in posts : post.data["title"] = Str("Service Worker Explained")

\* the stages of a file whose front matter was parsed into a Post
ParsedStages == {"parsed", "transformed", "rendered", "styled"}

\* C10: the slug, the file's name without its extension, identifies a Post:
\* no two Posts share a slug, every parsed content file has given exactly
\* one Post, and every slug is URL-safe.
C10_SlugIdentifiesPost ==
  /\ \A a, b \in posts : a.slug = b.slug => a = b
  /\ \A f, g \in ContentFiles : SlugOf(f.name) = SlugOf(g.name) => f = g
  /\ \A n \in FileNames :
       Cardinality({post \in posts : post.slug = SlugOf(n)}) =
         (IF stage[n] \in ParsedStages THEN 1 ELSE 0)
  /\ Cardinality(posts) = Cardinality({n \in FileNames : stage[n] \in ParsedStages})
  /\ \A f \in ContentFiles : IsUrlSafe(SlugOf(f.name))
  /\ \A post \in posts : IsUrlSafe(post.slug)

C10_Witness ==
  /\ Cardinality(posts) >= 2
  /\ \E post \in posts :
       post.slug = <<"r", "e", "a", "c", "t", "-", "p", "e", "r", "f", "o", "r",
                     "m", "a", "n", "c", "e", "-", "r", "e", "c", "i", "p", "e", "s">>
  /\ \E post \in posts : post.slug = <<"r", "e", "a", "c", "t">>

\* C11: a content file whose front matter lacks the date (or another
\* required field) ends in a validation error that names the file and gives
\* no Post; it never reaches a later stage, and no Post lacks a required
\* field.
C11_MissingFieldIsBuildError ==
  /\ \A f \in files :
       LET n == f.name
           lacking == ~({"title", "excerpt", "date"} \subseteq DOMAIN f.blocks[1])
       IN lacking =>
            /\ stage[n] \in {"unread", "read", "error"}
            /\ stage[n] = "error" => n \in errors
            /\ \A post \in posts : post.slug # SlugOf(n)
  /\ \A n \in errors : stage[n] = "error"
  /\ \A post \in posts : {"title", "excerpt", "date"} \subseteq DOMAIN post.data

C11_Witness ==
  \E f \in files :
    /\ DOMAIN f.blocks[1] = {"title", "excerpt", "coverImage"}
    /\ stage[f.name] = "error"
    /\ f.name \in errors
    /\ posts # {}
    /\ \A post \in posts : post.slug # SlugOf(f.name)

\* the steps a page takes, each from one stage to the next
StageOrder ==
  {<<"unread", "read">>, <<"read", "parsed">>, <<"read", "error">>,
   <<"parsed", "transformed">>, <<"transformed", "rendered">>,
   <<"rendered", "styled">>}

\* the names a content file of the model can have
PageNames == FileNames \cup UNION {{f.name : f \in fs} : fs \in DraftSets}

\* C14: every page goes through the stages in order, loaded, parsed,
\* transformed, rendered, styled, one stage at a time, and every page that
\* was loaded eventually is styled or is a build error.
C14_StagesInOrder ==
  /\ [][\A n \in DOMAIN stage :
          stage'[n] = stage[n] \/ <<stage[n], stage'[n]>> \in StageOrder]_vars
  /\ \A n \in PageNames :
       (n \in DOMAIN stage /\ stage[n] = "read")
         ~> (n \in DOMAIN stage /\ stage[n] \in {"styled", "error"})

C14_Witness ==
  \E n, m \in DOMAIN stage :
    /\ stage[n] = "styled"
    /\ stage[m] = "error"
    /\ m \in errors

\* the string of a sequence of characters
RECURSIVE Join(_)
Join(cs) == IF cs = <<>> THEN "" ELSE Head(cs) \o Join(Tail(cs))

Digits == <<"0", "1", "2", "3", "4", "5", "6", "7", "8", "9">>

IsDigit(c) == \E i \in DOMAIN Digits : Digits[i] = c

DigitValue(c) == (CHOOSE i \in DOMAIN Digits : Digits[i] = c) - 1

\* days a month can have
DaysIn(month) ==
  IF month = 2 THEN 29 ELSE IF month \in {4, 6, 9, 11} THEN 30 ELSE 31

\* an ISO 8601 calendar date, YYYY-MM-DD
IsIsoDateChars(cs) ==
  /\ Len(cs) = 10
  /\ cs[5] = "-" /\ cs[8] = "-"
  /\ \A i \in {1, 2, 3, 4, 6, 7, 9, 10} : IsDigit(cs[i])
  /\ LET month == 10 * DigitValue(cs[6]) + DigitValue(cs[7])
         day == 10 * DigitValue(cs[9]) + DigitValue(cs[10])
     IN /\ month \in 1..12
        /\ day \in 1..DaysIn(month)

\* a front matter value that is a string spelled as an ISO 8601 date
IsIsoDate(v) ==
  /\ v.t = "string"
  /\ \E cs \in DateSpellings : Join(cs) = v.v /\ IsIsoDateChars(cs)

\* the fields of the content file format
FormatFields == {"title", "excerpt", "coverImage", "date", "author", "ogImage"}

\* a front matter block whose fields are all fields of the format
FollowsFormat(block) ==
  /\ DOMAIN block \subseteq FormatFields
  /\ "author" \in DOMAIN block =>
       /\ block["author"].t = "object"
       /\ DOMAIN block["author"].o \subseteq {"name", "picture"}
  /\ "ogImage" \in DOMAIN block =>
       /\ block["ogImage"].t = "object"
       /\ DOMAIN block["ogImage"].o \subseteq {"url"}
  /\ "date" \in DOMAIN block => IsIsoDate(block["date"])

\* C12: every content file begins with a front matter block delimited by
\* --- lines, the fields of every block are among title, excerpt,
\* coverImage, date, author.name, author.picture and ogImage.url, and every
\* date is an ISO 8601 date string; so is the date of every Post.
C12_ContentFileFormat ==
  /\ \A f \in ContentFiles :
       /\ \E d \in Delimiters :
            /\ d.name = f.name
            /\ Len(d.lines) = Len(f.blocks)
            /\ d.lines[1][1] = 1
            /\ \A i \in DOMAIN d.lines : d.lines[i][1] < d.lines[i][2]
       /\ \A i \in DOMAIN f.blocks : FollowsFormat(f.blocks[i])
  /\ \A post \in posts : FollowsFormat(post.data) /\ IsIsoDate(post.data["date"])

C12_Witness ==
  \E post \in posts :
    /\ post.slug = SlugOf(ReactPerformanceRecipesMd.name)
    /\ post.data["date"] = Str("2022-01-05")
    /\ DOMAIN post.data = FormatFields

\* C13 as stated: only author and ogImage are optional, so every Post
\* loaded from the content set has a coverImage next to its title, excerpt
\* and date.
C13_EveryPostHasCoverImage ==
  \A post \in posts :
    /\ {"title", "excerpt", "date", "coverImage"} \subseteq DOMAIN post.data
    /\ DOMAIN post.data \subseteq FormatFields

\* C13 as amended: coverImage is optional as well as author and ogImage:
\* every Post loaded from the content set has a title, an excerpt and a
\* date, every Post but the one of service-worker.md has a coverImage path,
\* and author and ogImage may be absent.
C13_CoverImageOptionalToo ==
  \A post \in posts :
    /\ {"title", "excerpt", "date"} \subseteq DOMAIN post.data
    /\ DOMAIN post.data \subseteq FormatFields
    /\ post.slug # SlugOf(ServiceWorkerMd.name) =>
         /\ "coverImage" \in DOMAIN post.data
         /\ post.data["coverImage"].t = "string"
    /\ post.slug = SlugOf(ServiceWorkerMd.name) =>
         "coverImage" \notin DOMAIN post.data

C13_Witness ==
  /\ \E post \in posts : DOMAIN post.data = {"title", "excerpt", "date"}
  /\ \E post \in posts : DOMAIN post.data = {"title", "excerpt", "date", "coverImage"}
  /\ \E post \in posts : {"author", "ogImage"} \subseteq DOMAIN post.data

\* C15: the theme is a function from token class to color: every token
\* class of the stylesheet is given a color by exactly one rule, so that
\* its color is the same in any rule order, on every page that is styled.
C15_OneColorRulePerTokenClass ==
  \A n \in DOMAIN stage :
    stage[n] = "styled" =>
      \A c \in TokenClasses(ThemeRules) :
        /\ Cardinality(ColorRules(ThemeRules, c)) = 1
        /\ CascadeColor(ThemeRules, c) = CascadeColor(ReverseRules(ThemeRules), c)

\* C16: for every props value, props with their own config included,
\* HikeWithNoPreview hands the renderer a config whose noPreview is true,
\* and whose defaultFileName is 'App.js' unless the caller sets one.
C16_NoPreviewIsTrue ==
  last.component = "HikeWithNoPreview" =>
    LET given == last.output.props["config"].o
        caller == Spread(Get(last.props, "config"))
    IN /\ given["noPreview"] = Bool(TRUE)
       /\ "defaultFileName" \notin DOMAIN caller =>
            given["defaultFileName"] = Str("App.js")

\* C17: HikeWithPreview is Hike: for every props value the renderer gets
\* the same classes, config, preset, editorProps and remaining props from
\* both.
C17_HikeWithPreviewIsHike ==
  /\ last.component = "HikeWithPreview" => last.output = Hike(last.props)
  /\ (tracked # None /\ tracked.component = "Hike"
        /\ last.component = "HikeWithPreview" /\ tracked.props = last.props) =>
       /\ tracked.output.type = last.output.type
       /\ DOMAIN tracked.output.props = DOMAIN last.output.props
       /\ \A k \in DOMAIN last.output.props :
            tracked.output.props[k] = last.output.props[k]

C17_Witness ==
  /\ tracked # None
  /\ tracked.component = "Hike"
  /\ last.component = "HikeWithPreview"
  /\ tracked.props = last.props
  /\ {"config", "classes"} \subseteq DOMAIN last.props
  /\ tracked.output = last.output

\* C18: Hike merges editorProps one level deep: with no caller editorProps
\* the renderer gets codeProps {minColumns: 40} and frameProps
\* {button: null}; a top-level key of the caller replaces the default of
\* that key as a whole, and a key the caller omits keeps its default.
C18_EditorPropsShallowMerge ==
  last.component = "Hike" =>
    LET caller == Spread(Get(last.props, "editorProps"))
        given == last.output.props["editorProps"]
    IN /\ given.t = "object"
       /\ DOMAIN given.o = {"codeProps", "frameProps"} \cup DOMAIN caller
       /\ \A k \in DOMAIN caller : given.o[k] = caller[k]
       /\ "codeProps" \notin DOMAIN caller =>
            given.o["codeProps"] = Obj([minColumns |-> Num(40)])
       /\ "frameProps" \notin DOMAIN caller =>
            given.o["frameProps"] = Obj([button |-> Null])
       /\ "editorProps" \notin DOMAIN last.props =>
            given = Obj([codeProps |-> Obj([minColumns |-> Num(40)]),
                         frameProps |-> Obj([button |-> Null])])

C18_Witness ==
  /\ last.component = "Hike"
  /\ Get(last.props, "editorProps") = Obj([codeProps |-> Obj(EmptyObject)])
  /\ last.output.props["editorProps"] =
       Obj([codeProps |-> Obj(EmptyObject), frameProps |-> Obj([button |-> Null])])

\* C19: in Hike the renderer gets the merged config and editorProps, never
\* the caller's raw ones, and every other prop of the caller unchanged and
\* ahead of Hike's own values: a caller's classes or preset replaces the
\* module's.
C19_CallerPropsTakePrecedence ==
  last.component = "Hike" =>
    LET p == last.props
        out == last.output.props
    IN /\ DOMAIN out = {"classes", "config", "preset", "editorProps"} \cup DOMAIN p
       /\ {"noPreview", "defaultFileName"} \subseteq DOMAIN out["config"].o
       /\ {"codeProps", "frameProps"} \subseteq DOMAIN out["editorProps"].o
       /\ "config" \in DOMAIN p => out["config"] # p["config"]
       /\ "editorProps" \in DOMAIN p => out["editorProps"] # p["editorProps"]
       /\ \A k \in DOMAIN p \ {"config", "editorProps"} : out[k] = p[k]
       /\ "classes" \notin DOMAIN p => out["classes"] = Obj(ClassesTable)
       /\ "preset" \notin DOMAIN p => out["preset"] = Obj(PresetValue)

C19_Witness ==
  /\ last.component = "Hike"
  /\ "classes" \in DOMAIN last.props
  /\ "config" \in DOMAIN last.props
  /\ last.output.props["classes"] = last.props["classes"]
  /\ last.output.props["classes"] # Obj(ClassesTable)
  /\ last.output.props["preset"] = Obj(PresetValue)

\* C20: the output of PostPreview does not depend on author: two renders
\* whose props differ in author only give the same output, and a render
\* without author gives the preview block as any other.
C20_AuthorNotShown ==
  /\ last.component = "PostPreview" => last.output.type = "div"
  /\ (tracked # None /\ tracked.component = "PostPreview"
        /\ last.component = "PostPreview"
        /\ Rest(tracked.props, {"author"}) = Rest(last.props, {"author"})) =>
       tracked.output = last.output

C20_Witness ==
  /\ tracked # None
  /\ tracked.component = "PostPreview"
  /\ last.component = "PostPreview"
  /\ "author" \in DOMAIN tracked.props
  /\ "author" \notin DOMAIN last.props
  /\ Rest(tracked.props, {"author"}) = last.props
  /\ tracked.output = last.output

\* C21: every custom tag a content file uses is a key of the component
\* registry, so the lookup of each gives a registered renderer and none
\* falls back to an HTML element.
C21_CustomTagsRegistered ==
  \A f \in files :
    \A tag \in CustomTags(f) :
      /\ tag \in DOMAIN components
      /\ ResolveTag(tag) = [kind |-> "component", renderer |-> components[tag]]

\* the walkthrough's page has been transformed, and its three tags were
\* looked up in the registry
C21_Witness ==
  /\ MonadMd \in files
  /\ stage[MonadMd.name] = "transformed"
  /\ CustomTags(MonadMd) = {"HikeWithNoPreview", "StepHead", "CodeSlot"}
  /\ ResolveTag("StepHead") = [kind |-> "component", renderer |-> "StepHead"]
  /\ ResolveTag("CodeSlot").kind = "component"
  /\ ResolveTag("HikeWithNoPreview").kind = "component"

\* the variables the color declarations of a stylesheet read
ReferencedVariables(rules) ==
  {rules[i].value : i \in {j \in DOMAIN rules : rules[j].property = "color"}}

\* C22: on every page of the build, the variables the token rules read are
\* exactly the ten variables the code-block rule defines: none is read
\* without being defined, and none is defined without being read.
C22_ThemeVariablesClosed ==
  \A n \in DOMAIN stage :
    /\ ReferencedVariables(ThemeRules) \subseteq DOMAIN ThemeVariables
    /\ DOMAIN ThemeVariables \subseteq ReferencedVariables(ThemeRules)
    /\ Cardinality(DOMAIN ThemeVariables) = 10
    /\ \A c \in TokenClasses(ThemeRules) :
         CascadeColor(ThemeRules, c) \in
           {"inherit"} \cup {ThemeVariables[v] : v \in DOMAIN ThemeVariables}

\* a page has been styled, and the rule for deleted text read the last of
\* the ten variables
C22_Witness ==
  /\ \E n \in DOMAIN stage : stage[n] = "styled"
  /\ "falsy" \in ReferencedVariables(ThemeRules)
  /\ CascadeColor(ThemeRules, "deleted") = "#f087bd"

\* the elements of a type in a rendered tree
RECURSIVE CountElements(_, _)
CountElements(node, type) ==
  IF "type" \notin DOMAIN node THEN 0
  ELSE (IF node.type = type THEN 1 ELSE 0)
       + (IF "children" \notin DOMAIN node.props THEN 0
          ELSE LET kids == node.props.children
                   sum[i \in 0..Len(kids)] ==
                     IF i = 0 THEN 0
                     ELSE sum[i - 1] + CountElements(kids[i], type)
               IN sum[Len(kids)])

\* C23: PostPreview renders one div with three parts in a fixed order: a
\* heading holding the only link, whose text is the title; then the date,
\* handed unchanged to DateFormatter as dateString; then the excerpt. The
\* six elements carry nothing but class names, the link target and those
\* three fields.
C23_PreviewPartsInOrder ==
  last.component = "PostPreview" =>
    LET out == last.output
        parts == out.props.children
    IN /\ out.type = "div"
       /\ DOMAIN out.props = {"className", "children"}
       /\ Len(parts) = 3
       /\ parts[1].type = "h3"
       /\ DOMAIN parts[1].props = {"className", "children"}
       /\ Len(parts[1].props.children) = 1
       /\ LinkOf(out).type = "Link"
       /\ DOMAIN LinkOf(out).props = {"as", "href", "className", "children"}
       /\ LinkOf(out).props.children = <<Get(last.props, "title")>>
       /\ LinkOf(out).props.as = PostPath(Get(last.props, "slug"))
       /\ parts[2].type = "div"
       /\ DOMAIN parts[2].props = {"className", "children"}
       /\ parts[2].props.children =
            <<Element("DateFormatter", [dateString |-> Get(last.props, "date")])>>
       /\ parts[3].type = "p"
       /\ DOMAIN parts[3].props = {"className", "children"}
       /\ parts[3].props.children = <<Get(last.props, "excerpt")>>
       /\ CountElements(out, "Link") = 1
       /\ CountElements(out, "a") = 0
       /\ CountElements(out, "div") + CountElements(out, "h3")
            + CountElements(out, "DateFormatter") + CountElements(out, "p") = 5

\* a preview of a post that has an author besides the four fields shown:
\* the parts are the title link, the date and the excerpt
C23_Witness ==
  /\ last.component = "PostPreview"
  /\ {"title", "date", "excerpt", "slug", "author"} \subseteq DOMAIN last.props
  /\ LinkOf(last.output).props.children = <<Str("Sample")>>
  /\ DateOf(last.output).props.dateString = Str("2020-03-16")
  /\ ExcerptOf(last.output).props.children = <<Str("Lorem ipsum")>>
  /\ CountElements(last.output, "Link") = 1

====
